---- MODULE Spec2Model ----
(***************************************************************************)
(* The workflow execution engine of AICompanion                            *)
(* (src/server/workflow/engine.ts) together with the parts of its          *)
(* collaborators that decide its behaviour: the storage object             *)
(* (src/unnamed/part_001, imported by the engine as '../storage'), the     *)
(* node registry (src/server/workflow/registry.ts) and the executions      *)
(* table written through db; the node handlers                             *)
(* (src/server/workflow/handlers/actions.ts and src/unnamed/part_002, the  *)
(* engine's './handlers/triggers'); and the inbound webhook route of       *)
(* src/unnamed/part_004 (the engine's router).                             *)
(*                                                                         *)
(* JavaScript values are encoded as follows.  An object is a function from *)
(* its keys; a missing or undefined string is "" (both are falsy, which is *)
(* all the engine ever asks of them); an optional object is a sequence of  *)
(* length 0 or 1; a Promise is a record with the single field "promise".   *)
(***************************************************************************)
EXTENDS Integers, Sequences, FiniteSets, TLC

\* Number of calls of execute the model follows (each draws a fresh uuid).
MaxExec == 2

ExecIds == 1..MaxExec

-----------------------------------------------------------------------------
(* Values *)

Undefined == <<>>

EmptyObject == <<>>

NoId == ""

\* Error messages: the two thrown by executeWorkflow that matter, and the
\* TypeError the runtime raises when .find is read off undefined.
NoTriggerError == "No trigger node found"

TypeError == "TypeError: Cannot read properties of undefined (reading 'find')"

NoError == ""

\* type strings under which part_004 registers a handler
RegisteredTypes ==
    {"schedule.trigger", "webhook.trigger", "http.request", "email.send",
     "filter", "lead.create", "lead.score"}

\* n.type.includes('trigger') over the type strings the model uses
IncludesTrigger(type) == type \in {"schedule.trigger", "webhook.trigger"}

Node(id, type) == [id |-> id, type |-> type]

Conn(s, t) == [source |-> s, target |-> t]

\* The rows of the workflows table: linear, branching, cyclic, without a
\* trigger, with a node type nobody registered, and a diamond.
Workflows ==
    { [id |-> 1,
       nodes |-> << Node("A", "webhook.trigger"), Node("B", "lead.create"),
                    Node("C", "email.send") >>,
       connections |-> << Conn("A", "B"), Conn("B", "C") >>],
      [id |-> 2,
       nodes |-> << Node("A", "webhook.trigger"), Node("B", "http.request"),
                    Node("C", "filter"), Node("D", "email.send") >>,
       connections |-> << Conn("A", "B"), Conn("A", "C"), Conn("B", "D") >>],
      [id |-> 3,
       nodes |-> << Node("A", "schedule.trigger"), Node("B", "http.request") >>,
       connections |-> << Conn("A", "B"), Conn("B", "A") >>],
      [id |-> 4,
       nodes |-> << Node("A", "http.request"), Node("B", "filter") >>,
       connections |-> << Conn("A", "B") >>],
      [id |-> 5,
       nodes |-> << Node("A", "webhook.trigger"), Node("B", "custom.code") >>,
       connections |-> << Conn("A", "B") >>],
      [id |-> 6,
       nodes |-> << Node("A", "webhook.trigger"), Node("B", "http.request"),
                    Node("C", "lead.score"), Node("D", "email.send") >>,
       connections |-> << Conn("A", "B"), Conn("A", "C"), Conn("B", "D"),
                          Conn("C", "D") >>] }

WorkflowById(id) == CHOOSE w \in Workflows : w.id = id

\* req.body.triggerData of POST /:id/execute: absent, or an object
TriggerDatas == { <<>>, << [lead |-> "jane@x.com"] >> }

\* req.body.triggerNodeId: absent, a node of the workflow, or a foreign id
TriggerNodeIds == { NoId, "A", "Z" }

\* The requests POST /:id/execute is given: every workflow with neither
\* trigger data nor trigger node id; the linear workflow with trigger data,
\* with its first node named and with a foreign node named; the trigger-less
\* workflow with its first node named; the workflow with the unregistered
\* type started at the node of that type.
Calls ==
    { [workflow |-> w, triggerData |-> <<>>, triggerNodeId |-> NoId] :
        w \in Workflows }
    \cup
    { [workflow |-> WorkflowById(1), triggerData |-> td, triggerNodeId |-> NoId] :
        td \in TriggerDatas }
    \cup
    { [workflow |-> WorkflowById(1), triggerData |-> <<>>, triggerNodeId |-> tn] :
        tn \in TriggerNodeIds }
    \cup
    { [workflow |-> WorkflowById(4), triggerData |-> <<>>, triggerNodeId |-> "A"],
      [workflow |-> WorkflowById(5), triggerData |-> <<>>, triggerNodeId |-> "B"] }

-----------------------------------------------------------------------------
VARIABLES
    frames,             \* activation of each execute call: arguments and position
    activeExecutions,   \* WorkflowEngine.activeExecutions: uuid -> ExecutionContext
    dbExecutions,       \* rows of the executions table, in insertion order
    returned,           \* how often execute has returned each id to a caller
    handled,            \* the handler invocation under study: arguments and result
    route,              \* activation of the webhook route: table read, position
    workflows           \* rows of the workflows table that storage reads and writes

vars ==
    << frames, activeExecutions, dbExecutions, returned, handled, route, workflows >>

NoFrame ==
    [pc |-> "idle",
     workflow |-> [id |-> 0, nodes |-> <<>>, connections |-> <<>>],
     options |-> [workflowId |-> 0, triggerData |-> <<>>, triggerNodeId |-> NoId],
     row |-> 0,
     rejection |-> NoError]

\* no handler has been invoked
NoHandled ==
    [type |-> "", parameters |-> <<>>, inputData |-> <<>>, external |-> "",
     throws |-> NoError, output |-> <<>>]

\* no request has reached the webhook route; the workflows table is empty
NoRoute ==
    [pc |-> "idle", table |-> <<>>, path |-> "", matchingWorkflows |-> <<>>,
     i |-> 1, awaiting |-> 0, executionResults |-> <<>>, status |-> 0]

Init ==
    /\ frames = [e \in ExecIds |-> NoFrame]
    /\ activeExecutions = <<>>
    /\ dbExecutions = <<>>
    /\ returned = [e \in ExecIds |-> 0]
    /\ handled = NoHandled
    /\ route = NoRoute
    /\ workflows = Workflows

-----------------------------------------------------------------------------
(* storage and the engine's lookups *)

\* DatabaseStorage.getWorkflow is async: whatever row it will select, what
\* the caller holds on return is a Promise, an object without a nodes field.
getWorkflow(id) ==
    [promise |-> { w \in workflows : w.id = id }]

\* Array.prototype.find over a sequence, given the indices whose elements
\* satisfy the callback: the first such element, as a sequence of length 0
\* (undefined) or 1.
find(seq, hits) ==
    IF hits = {} THEN Undefined
    ELSE << seq[CHOOSE i \in hits : \A j \in hits : i <= j] >>

\* getNodeById: what it returns or throws.  The call of storage.getWorkflow
\* is not awaited, so workflow is the Promise itself; workflow?.nodes is
\* undefined and reading .find from it throws.
getNodeById(execution, nodeId) ==
    IF nodeId = NoId
    THEN [throws |-> NoError, node |-> Undefined]
    ELSE LET workflow == getWorkflow(execution.workflowId)
         IN  IF "nodes" \in DOMAIN workflow
             THEN [throws |-> NoError,
                   node |-> find(workflow.nodes,
                                 { i \in DOMAIN workflow.nodes :
                                     workflow.nodes[i].id = nodeId })]
             ELSE [throws |-> TypeError, node |-> Undefined]

\* Variant of firstTriggerId that takes the first node whatever its type.
firstTriggerIdAnyType(execution) ==
    IF execution.order = <<>> THEN NoId ELSE execution.order[1]

\* nodes.find(n => n.type.includes('trigger'))?.id over Object.values of
\* execution.nodes (insertion order: the ids used here are not integer-like)
firstTriggerId(execution) ==
    LET hit == find(execution.order,
                    { i \in DOMAIN execution.order :
                        IncludesTrigger(execution.nodes[execution.order[i]].type) })
    IN  IF hit = Undefined THEN NoId ELSE hit[1]

\* executeWorkflow from its entry to its first await: either it throws
\* (the promise it returns is rejected) or it reaches executeNode.
executeWorkflow(execution, startNodeId) ==
    LET got == IF startNodeId # NoId
               THEN getNodeById(execution, startNodeId)
               ELSE getNodeById(execution, firstTriggerId(execution))
    IN  IF got.throws # NoError THEN [throws |-> got.throws, start |-> NoId]
        ELSE IF got.node = Undefined THEN [throws |-> NoTriggerError, start |-> NoId]
        ELSE [throws |-> NoError, start |-> got.node[1].id]

\* Variant of getExecutionStatus that forgets an execution once it has ended.
getExecutionStatusWhileRunning(executionId) ==
    IF /\ executionId \in DOMAIN activeExecutions
       /\ activeExecutions[executionId].status = "running"
    THEN << activeExecutions[executionId] >>
    ELSE Undefined

\* getExecutionStatus
getExecutionStatus(executionId) ==
    IF executionId \in DOMAIN activeExecutions
    THEN << activeExecutions[executionId] >>
    ELSE Undefined

-----------------------------------------------------------------------------
(* execute *)

\* Variant of uuidv4 that may hand out a value it has handed out before.
uuidv4Repeating == ExecIds

\* uuidv4(): a value no earlier call has drawn
uuidv4 == { e \in ExecIds : frames[e].pc = "idle" }

\* Variant of newContext that takes nodes and connections from the row the
\* table holds when the context is built, not from the workflow passed in.
newContextFromStorage(executionId, passed, options) ==
    LET rows == { w \in workflows : w.id = passed.id }
        workflow == IF rows = {} THEN [id |-> passed.id, nodes |-> <<>>, connections |-> <<>>]
                    ELSE CHOOSE w \in rows : TRUE
    IN
    [id |-> executionId,
     workflowId |-> options.workflowId,
     status |-> "running",
     nodes |-> [id \in { workflow.nodes[i].id : i \in DOMAIN workflow.nodes } |->
                  LET node == CHOOSE n \in { workflow.nodes[i] : i \in DOMAIN workflow.nodes } :
                                  n.id = id
                  IN  [id |-> id, type |-> node.type, executed |-> FALSE,
                       status |-> "pending", inputData |-> EmptyObject,
                       startedAt |-> 0, finishedAt |-> 0, error |-> NoError]],
     order |-> [i \in DOMAIN workflow.nodes |-> workflow.nodes[i].id],
     data |-> IF options.triggerData = <<>> THEN EmptyObject
              ELSE options.triggerData[1],
     connections |-> workflow.connections,
     currentNodeId |-> NoId,
     error |-> NoError,
     webhook |-> FALSE]

\* the ExecutionContext built by execute, lines 72-93.  The optional fields
\* execute leaves undefined (startedAt, finishedAt, error) are 0 and NoError.
newContext(executionId, workflow, options) ==
    [id |-> executionId,
     workflowId |-> options.workflowId,
     status |-> "running",
     nodes |-> [id \in { workflow.nodes[i].id : i \in DOMAIN workflow.nodes } |->
                  LET node == CHOOSE n \in { workflow.nodes[i] : i \in DOMAIN workflow.nodes } :
                                  n.id = id
                  IN  [id |-> id, type |-> node.type, executed |-> FALSE,
                       status |-> "pending", inputData |-> EmptyObject,
                       startedAt |-> 0, finishedAt |-> 0, error |-> NoError]],
     order |-> [i \in DOMAIN workflow.nodes |-> workflow.nodes[i].id],
     data |-> IF options.triggerData = <<>> THEN EmptyObject
              ELSE options.triggerData[1],
     connections |-> workflow.connections,
     currentNodeId |-> NoId,
     error |-> NoError,
     webhook |-> FALSE]

\* execute, lines 51-66: draw the id and issue the insert, which is awaited.
\* The route passes the stored workflow and its id.
ExecuteCall(call) ==
    \E executionId \in uuidv4 :
        /\ returned[executionId] < MaxExec      \* keeps the counter finite
        /\ frames' = [frames EXCEPT ![executionId] =
                        [pc |-> "insert", workflow |-> call.workflow,
                         options |-> [workflowId |-> call.workflow.id,
                                      triggerData |-> call.triggerData,
                                      triggerNodeId |-> call.triggerNodeId],
                         row |-> 0,
                         rejection |-> NoError]]
        /\ UNCHANGED << activeExecutions, dbExecutions, returned >>

\* Variant of InsertSettles in which a failed insert ends execute: nothing is
\* stored, nothing is started and no id is returned.
InsertSettlesOrAborts(executionId, inserted) ==
    /\ frames[executionId].pc = "insert"
    /\ LET f == frames[executionId]
           execution == newContext(executionId, f.workflow, f.options)
           run == executeWorkflow(execution, f.options.triggerNodeId)
       IN  IF inserted
           THEN /\ dbExecutions' =
                      Append(dbExecutions,
                             [id |-> Len(dbExecutions) + 1, status |-> "running",
                              workflowId |-> f.options.workflowId,
                              data |-> f.options.triggerData])
                /\ activeExecutions' = (executionId :> execution) @@ activeExecutions
                /\ frames' = [frames EXCEPT ![executionId] =
                                [f EXCEPT !.pc = IF run.throws # NoError THEN "catch"
                                                 ELSE "executeNode",
                                          !.rejection = run.throws,
                                          !.row = Len(dbExecutions) + 1]]
                /\ returned' = [returned EXCEPT ![executionId] = @ + 1]
           ELSE /\ frames' = [frames EXCEPT ![executionId].pc = "done"]
                /\ UNCHANGED << activeExecutions, dbExecutions, returned >>

\* execute, lines 66-123: the insert settles (a failure is only logged), the
\* context is built and stored, executeWorkflow is started and runs up to
\* its first await, the catch callback is attached, the id is returned.
InsertSettles(executionId, inserted) ==
    /\ frames[executionId].pc = "insert"
    /\ LET f == frames[executionId]
           execution == newContext(executionId, f.workflow, f.options)
           run == executeWorkflow(execution, f.options.triggerNodeId)
       IN  /\ dbExecutions' =
                 IF inserted
                 THEN Append(dbExecutions,
                             [id |-> Len(dbExecutions) + 1, status |-> "running",
                              workflowId |-> f.options.workflowId,
                              data |-> f.options.triggerData])
                 ELSE dbExecutions
           /\ activeExecutions' = (executionId :> execution) @@ activeExecutions
           /\ frames' = [frames EXCEPT ![executionId] =
                           [f EXCEPT !.pc = IF run.throws # NoError THEN "catch"
                                            ELSE "executeNode",
                                     !.rejection = run.throws,
                                     !.row = IF inserted THEN Len(dbExecutions) + 1
                                             ELSE 0]]
           /\ returned' = [returned EXCEPT ![executionId] = @ + 1]

\* Variant of CatchRejection that writes a status outside the four of
\* ExecutionContext.
CatchRejectionFailed(executionId) ==
    /\ frames[executionId].pc = "catch"
    /\ activeExecutions' =
          [activeExecutions EXCEPT
             ![executionId].status = "failed",
             ![executionId].error = frames[executionId].rejection]
    /\ frames' = [frames EXCEPT ![executionId].pc = "done"]
    /\ UNCHANGED << dbExecutions, returned >>

\* the callback given to .catch, lines 99-121.  Its db.update is built but
\* neither awaited nor followed by then, so no statement is sent.
CatchRejection(executionId) ==
    /\ frames[executionId].pc = "catch"
    /\ activeExecutions' =
          IF executionId \in DOMAIN activeExecutions
          THEN [activeExecutions EXCEPT
                  ![executionId].status = "error",
                  ![executionId].error = frames[executionId].rejection]
          ELSE activeExecutions
    /\ frames' = [frames EXCEPT ![executionId].pc = "done"]
    /\ UNCHANGED << dbExecutions, returned >>

\* setWebSocket, called by a subscriber that was handed the id
setWebSocket(executionId) ==
    /\ frames[executionId].pc = "done"
    /\ activeExecutions' =
          IF executionId \in DOMAIN activeExecutions
          THEN [activeExecutions EXCEPT ![executionId].webhook = TRUE]
          ELSE activeExecutions
    /\ UNCHANGED << frames, dbExecutions, returned >>

Next ==
    \/ \E call \in Calls : ExecuteCall(call) /\ UNCHANGED << handled, route, workflows >>
    \/ \E e \in ExecIds, ok \in BOOLEAN :
          InsertSettles(e, ok) /\ UNCHANGED << handled, route, workflows >>
    \/ \E e \in ExecIds : CatchRejection(e) /\ UNCHANGED << handled, route, workflows >>
    \/ \E e \in ExecIds : setWebSocket(e) /\ UNCHANGED << handled, route, workflows >>

Spec == Init /\ [][Next]_vars

-----------------------------------------------------------------------------
(* Node handlers: handlers/actions.ts and part_002 (handlers/triggers) *)

\* Longest list of filter conditions the model draws.
MaxConditions == 2

\* {...a, ...b}
Merge(a, b) == b @@ a

\* what new Date().toISOString() yields
Timestamp == "now"

\* error.message of the rejection of a handler's external call
ExternalError == "external call failed"

\* the TypeError raised when a method of FilterHandler that was detached
\* from its instance reads this.evaluateCondition
UnboundThisError ==
    "TypeError: Cannot read properties of undefined (reading 'evaluateCondition')"

\* outcome of the call a handler awaits: axios, storage.createLead, scoreLead
Outcomes == {"resolves", "rejects"}

\* WebhookTriggerHandler.execute
WebhookTriggerHandler(parameters, inputData) ==
    [throws |-> NoError,
     output |-> [success |-> TRUE, triggered |-> TRUE, timestamp |-> Timestamp,
                 webhook |-> [path |-> parameters.path,
                              method |-> IF parameters.method = "" THEN "POST"
                                         ELSE parameters.method],
                 data |-> inputData]]

\* the catch block shared by the action handlers: the failure becomes output
FailureOutput(message, inputData) ==
    [throws |-> NoError,
     output |-> [success |-> FALSE, executed |-> TRUE, timestamp |-> Timestamp,
                 error |-> message, data |-> << inputData >>]]

\* HttpRequestHandler.execute.  The placeholders substituted into url,
\* headers and body decide what is requested, not what the handler does with
\* the outcome; the response is one with status 200 that echoes the url.
HttpRequestHandler(parameters, inputData, outcome) ==
    IF outcome = "resolves"
    THEN [throws |-> NoError,
          output |-> [success |-> TRUE, executed |-> TRUE, timestamp |-> Timestamp,
                      statusCode |-> 200,
                      data |-> << [url |-> parameters.url] >>,
                      headers |-> EmptyObject]]
    ELSE FailureOutput(ExternalError, inputData)

\* FilterHandler.evaluateCondition for a field without dots.  Number() of
\* undefined is NaN, which is neither above nor below anything.  The values
\* the model draws are numbers, so 'contains' is not among the operators.
evaluateCondition(condition, data) ==
    LET fieldValue == IF condition.field \in DOMAIN data
                      THEN << data[condition.field] >> ELSE Undefined
    IN  CASE condition.operator = "equals" ->
                fieldValue # Undefined /\ fieldValue[1] = condition.value
          [] condition.operator = "notEquals" ->
                fieldValue = Undefined \/ fieldValue[1] # condition.value
          [] condition.operator = "greaterThan" ->
                fieldValue # Undefined /\ fieldValue[1] > condition.value
          [] condition.operator = "lessThan" ->
                fieldValue # Undefined /\ fieldValue[1] < condition.value
          [] condition.operator = "exists" -> fieldValue # Undefined
          [] OTHER -> FALSE

\* FilterHandler.allConditionsMatch called with the given this: the arrow
\* function passed to every reads this.evaluateCondition
allConditionsMatch(self, conditions, data) ==
    IF conditions = <<>> THEN [throws |-> NoError, value |-> TRUE]
    ELSE IF self = Undefined THEN [throws |-> UnboundThisError, value |-> FALSE]
    ELSE [throws |-> NoError,
          value |-> \A i \in DOMAIN conditions : evaluateCondition(conditions[i], data)]

\* FilterHandler.anyConditionMatches called with the given this
anyConditionMatches(self, conditions, data) ==
    IF conditions = <<>> THEN [throws |-> NoError, value |-> TRUE]
    ELSE IF self = Undefined THEN [throws |-> UnboundThisError, value |-> FALSE]
    ELSE [throws |-> NoError,
          value |-> \E i \in DOMAIN conditions : evaluateCondition(conditions[i], data)]

\* FilterHandler.execute.  combine is the method read off this and then
\* called as a plain function, combine(conditions, inputData): inside it
\* this is undefined.
FilterHandler(parameters, inputData) ==
    LET matches == IF parameters.combinator = "OR"
                   THEN anyConditionMatches(Undefined, parameters.conditions, inputData)
                   ELSE allConditionsMatch(Undefined, parameters.conditions, inputData)
    IN  IF matches.throws # NoError
        THEN FailureOutput(matches.throws, inputData)
        ELSE [throws |-> NoError,
              output |-> [success |-> TRUE, executed |-> TRUE, timestamp |-> Timestamp,
                          matches |-> matches.value,
                          data |-> IF matches.value THEN << inputData >> ELSE <<>>]]

\* inputData.leadData, {} when absent (spreading undefined adds nothing)
leadDataOf(inputData) ==
    IF "leadData" \in DOMAIN inputData THEN inputData.leadData ELSE EmptyObject

\* LeadCreateHandler.execute; storage.createLead resolves to the row made
\* of the merged lead data and its id
LeadCreateHandler(parameters, inputData, outcome) ==
    LET mergedLeadData == Merge(parameters.leadData, leadDataOf(inputData))
        lead == Merge(mergedLeadData, [id |-> 1])
    IN  IF outcome = "resolves"
        THEN [throws |-> NoError,
              output |-> [success |-> TRUE, executed |-> TRUE, timestamp |-> Timestamp,
                          lead |-> lead,
                          data |-> << Merge(inputData, [lead |-> lead]) >>]]
        ELSE FailureOutput(ExternalError, inputData)

\* LeadScoreHandler.execute; scoreLead resolves to the lead with its score
LeadScoreHandler(inputData, outcome) ==
    LET leadData == IF "lead" \in DOMAIN inputData THEN inputData.lead
                    ELSE IF "leadData" \in DOMAIN inputData THEN inputData.leadData
                    ELSE inputData
        scoredLead == Merge(leadData, [aiScore |-> 70])
    IN  IF outcome = "resolves"
        THEN [throws |-> NoError,
              output |-> [success |-> TRUE, executed |-> TRUE, timestamp |-> Timestamp,
                          scoredLead |-> scoredLead,
                          data |-> << Merge(inputData, [scoredLead |-> scoredLead]) >>]]
        ELSE FailureOutput(ExternalError, inputData)

\* nodeRegistry.getHandler(node.type).execute(node, inputData), for the
\* types whose handler is in the source
Invocation(type, parameters, inputData, outcome, result) ==
    [type |-> type, parameters |-> parameters, inputData |-> inputData,
     external |-> outcome, throws |-> result.throws, output |-> result.output]

Condition(field, operator, value) ==
    [field |-> field, operator |-> operator, value |-> value]

\* conditions a filter node is configured with
Conditions ==
    { Condition("score", "greaterThan", 50), Condition("score", "lessThan", 50),
      Condition("score", "equals", 80), Condition("tier", "exists", 0) }

ConditionLists ==
    UNION { [1..n -> Conditions] : n \in 0..MaxConditions }

\* parameters.combinator: AND, OR, or absent
Combinators == {"AND", "OR", ""}

\* what a handler is given as inputData
InputDatas ==
    { [score |-> 80], [score |-> 30], [score |-> 50, tier |-> 1],
      [lead |-> [email |-> "jane@x.com"]],
      [leadData |-> [email |-> "jane@x.com"]] }

ExecuteWebhookTrigger(parameters, inputData) ==
    /\ handled' = Invocation("webhook.trigger", parameters, inputData, "",
                             WebhookTriggerHandler(parameters, inputData))
    /\ UNCHANGED << frames, activeExecutions, dbExecutions, returned, route, workflows >>

ExecuteHttpRequest(inputData, outcome) ==
    LET parameters == [url |-> "https://crm.example/leads", method |-> "POST"]
    IN  /\ handled' = Invocation("http.request", parameters, inputData, outcome,
                                 HttpRequestHandler(parameters, inputData, outcome))
        /\ UNCHANGED << frames, activeExecutions, dbExecutions, returned, route, workflows >>

ExecuteFilter(conditions, combinator, inputData) ==
    LET parameters == [conditions |-> conditions, combinator |-> combinator]
    IN  /\ handled' = Invocation("filter", parameters, inputData, "",
                                 FilterHandler(parameters, inputData))
        /\ UNCHANGED << frames, activeExecutions, dbExecutions, returned, route, workflows >>

ExecuteLeadCreate(inputData, outcome) ==
    LET parameters == [leadData |-> [source |-> "webhook"]]
    IN  /\ handled' = Invocation("lead.create", parameters, inputData, outcome,
                                 LeadCreateHandler(parameters, inputData, outcome))
        /\ UNCHANGED << frames, activeExecutions, dbExecutions, returned, route, workflows >>

ExecuteLeadScore(inputData, outcome) ==
    /\ handled' = Invocation("lead.score", EmptyObject, inputData, outcome,
                             LeadScoreHandler(inputData, outcome))
    /\ UNCHANGED << frames, activeExecutions, dbExecutions, returned, route, workflows >>

HandlerNext ==
    \/ \E method \in {"", "GET"}, inputData \in InputDatas :
          ExecuteWebhookTrigger([path |-> "lead", method |-> method], inputData)
    \/ \E inputData \in InputDatas, outcome \in Outcomes :
          ExecuteHttpRequest(inputData, outcome)
    \/ \E conditions \in ConditionLists, combinator \in Combinators,
          inputData \in InputDatas :
          ExecuteFilter(conditions, combinator, inputData)
    \/ \E inputData \in InputDatas, outcome \in Outcomes :
          ExecuteLeadCreate(inputData, outcome)
    \/ \E inputData \in InputDatas, outcome \in Outcomes :
          ExecuteLeadScore(inputData, outcome)

\* the handlers on their own: one invocation after another
HandlerSpec == Init /\ [][HandlerNext]_vars

-----------------------------------------------------------------------------
(* The inbound webhook route: POST /webhook/:path of part_004 *)

\* req.method: the route is registered with workflowRouter.post
RequestMethod == "POST"

\* req.params.path, and the path a webhook trigger is configured with
Paths == {"lead", "Lead"}

\* node.parameters.method of a trigger: absent, or as its author typed it
Methods == {"", "POST", "post", "GET"}

WebhookNode(id, type, path, method) ==
    [id |-> id, type |-> type, parameters |-> [path |-> path, method |-> method]]

\* a row of the workflows table: a trigger followed by one action
StoredWorkflow(id, active, type, path, method) ==
    [id |-> id, active |-> active,
     nodes |-> << WebhookNode("T", type, path, method),
                  WebhookNode("B", "lead.create", "", "") >>,
     connections |-> << Conn("T", "B") >>]

\* what storage.getAllWorkflows() resolves to: two rows, the second of which
\* may start with a trigger of another type
Tables ==
    { << StoredWorkflow(1, a1, "webhook.trigger", p1, m1),
         StoredWorkflow(2, a2, t2, p2, m2) >> :
        a1 \in BOOLEAN, p1 \in Paths, m1 \in Methods,
        a2 \in BOOLEAN, t2 \in {"webhook.trigger", "schedule.trigger"},
        p2 \in Paths, m2 \in Methods }

\* the callback of workflows.filter, lines 294-304
matches(workflow, path) ==
    /\ workflow.active
    /\ \E j \in DOMAIN workflow.nodes :
          LET node == workflow.nodes[j]
          IN  /\ node.type = "webhook.trigger"
              /\ node.parameters.path = path
              /\ (node.parameters.method = "" \/ node.parameters.method = RequestMethod)

\* lines 289-308: read the table, keep the matching workflows, answer 404
\* when there is none (500, line 344, when the table cannot be read)
WebhookReceive(path, tableRead) ==
    /\ route.pc = "idle"
    /\ LET matchingWorkflows == SelectSeq(route.table, LAMBDA w : matches(w, path))
       IN  route' =
             IF ~tableRead
             THEN [route EXCEPT !.pc = "responded", !.path = path, !.status = 500]
             ELSE IF Len(matchingWorkflows) = 0
             THEN [route EXCEPT !.pc = "responded", !.path = path, !.status = 404]
             ELSE [route EXCEPT !.pc = "loop", !.path = path,
                                !.matchingWorkflows = matchingWorkflows]
    /\ UNCHANGED << frames, activeExecutions, dbExecutions, returned, handled,
                    workflows >>

\* lines 313-329, one turn of the loop up to the await: find the trigger
\* node by type and path and call execute with it
WebhookExecute ==
    /\ route.pc = "loop"
    /\ route.i <= Len(route.matchingWorkflows)
    /\ LET workflow == route.matchingWorkflows[route.i]
           triggerNode == find(workflow.nodes,
                               { j \in DOMAIN workflow.nodes :
                                   /\ workflow.nodes[j].type = "webhook.trigger"
                                   /\ workflow.nodes[j].parameters.path = route.path })
       IN  IF triggerNode # Undefined
           THEN /\ ExecuteCall([workflow |-> workflow,
                                triggerData |-> << [body |-> "jane@x.com",
                                                    method |-> RequestMethod] >>,
                                triggerNodeId |-> triggerNode[1].id])
                /\ route' = [route EXCEPT
                               !.pc = "await",
                               !.awaiting = CHOOSE e \in ExecIds : frames'[e] # frames[e]]
           ELSE /\ route' = [route EXCEPT !.i = @ + 1]
                /\ UNCHANGED << frames, activeExecutions, dbExecutions, returned >>
    /\ UNCHANGED << handled, workflows >>

\* lines 320-335: the await of execute is over, the id is pushed and the
\* loop goes on.  The
\* callback of the rejected executeWorkflow was queued before the
\* continuation of the route, so it has run by now.
WebhookResume ==
    /\ route.pc = "await"
    /\ frames[route.awaiting].pc \in {"done", "executeNode"}
    /\ route' = [route EXCEPT
                   !.pc = "loop",
                   !.i = @ + 1,
                   !.executionResults =
                       Append(@, [workflowId |-> route.matchingWorkflows[route.i].id,
                                  executionId |-> route.awaiting])]
    /\ UNCHANGED << frames, activeExecutions, dbExecutions, returned, handled,
                    workflows >>

\* lines 338-342: the answer after the loop
WebhookRespond ==
    /\ route.pc = "loop"
    /\ route.i > Len(route.matchingWorkflows)
    /\ route' = [route EXCEPT !.pc = "responded", !.status = 200]
    /\ UNCHANGED << frames, activeExecutions, dbExecutions, returned, handled,
                    workflows >>

WebhookInit ==
    /\ frames = [e \in ExecIds |-> NoFrame]
    /\ activeExecutions = <<>>
    /\ dbExecutions = <<>>
    /\ returned = [e \in ExecIds |-> 0]
    /\ handled = NoHandled
    /\ route \in { [NoRoute EXCEPT !.table = table] : table \in Tables }
    /\ workflows = Workflows

WebhookNext ==
    \/ \E path \in Paths, tableRead \in BOOLEAN : WebhookReceive(path, tableRead)
    \/ WebhookExecute
    \/ \E e \in ExecIds, ok \in BOOLEAN :
          InsertSettles(e, ok) /\ UNCHANGED << handled, route, workflows >>
    \/ \E e \in ExecIds : CatchRejection(e) /\ UNCHANGED << handled, route, workflows >>
    \/ WebhookResume
    \/ WebhookRespond

\* one request to the webhook route, over every table
WebhookSpec == WebhookInit /\ [][WebhookNext]_vars

-----------------------------------------------------------------------------
(* The engine next to writes of the workflows table: PATCH /:id, DELETE /:id
   and POST /:id/execute of part_004 over storage (part_001) *)

\* a workflow with a connection to an id that is no node of it, declared
\* before a connection to a node
DanglingWorkflow ==
    [id |-> 7,
     nodes |-> << Node("A", "webhook.trigger"), Node("B", "lead.create") >>,
     connections |-> << Conn("A", "Z"), Conn("A", "B") >>]

\* ids of the workflows the requests of this part are about
StoredIds == {1, 7}

\* req.body of PATCH /:id: the workflow cut down to its trigger
UpdateDatas ==
    { [nodes |-> << Node("A", "webhook.trigger") >>, connections |-> <<>>] }

\* POST /:id/execute: the row is read from storage (404 when there is none)
\* and passed to execute
ExecuteStored(id, triggerData) ==
    \E workflow \in workflows :
        /\ workflow.id = id
        /\ ExecuteCall([workflow |-> workflow, triggerData |-> triggerData,
                        triggerNodeId |-> NoId])
        /\ UNCHANGED << handled, route, workflows >>

\* storage.updateWorkflow, called by PATCH /:id
updateWorkflow(id, updateData) ==
    /\ workflows' = { IF w.id = id THEN Merge(w, updateData) ELSE w : w \in workflows }
    /\ UNCHANGED << frames, activeExecutions, dbExecutions, returned, handled, route >>

\* storage.deleteWorkflow, called by DELETE /:id
deleteWorkflow(id) ==
    /\ workflows' = { w \in workflows : w.id # id }
    /\ UNCHANGED << frames, activeExecutions, dbExecutions, returned, handled, route >>

StorageInit ==
    /\ frames = [e \in ExecIds |-> NoFrame]
    /\ activeExecutions = <<>>
    /\ dbExecutions = <<>>
    /\ returned = [e \in ExecIds |-> 0]
    /\ handled = NoHandled
    /\ route = NoRoute
    /\ workflows = Workflows \cup {DanglingWorkflow}

StorageNext ==
    \/ \E id \in StoredIds, triggerData \in TriggerDatas : ExecuteStored(id, triggerData)
    \/ \E e \in ExecIds, ok \in BOOLEAN :
          InsertSettles(e, ok) /\ UNCHANGED << handled, route, workflows >>
    \/ \E e \in ExecIds : CatchRejection(e) /\ UNCHANGED << handled, route, workflows >>
    \/ \E id \in StoredIds, updateData \in UpdateDatas : updateWorkflow(id, updateData)
    \/ \E id \in StoredIds : deleteWorkflow(id)

\* executions of stored workflows while the table is being written
StorageSpec == StorageInit /\ [][StorageNext]_vars

-----------------------------------------------------------------------------
(* Properties *)

Done(e) == frames[e].pc = "done"

Started == { e \in ExecIds : e \in DOMAIN activeExecutions }

NodeIdsOf(workflow) == { workflow.nodes[i].id : i \in DOMAIN workflow.nodes }

\* a type that denotes a trigger, as the workflow's author means it
DenotesTrigger(type) == type \in {"schedule.trigger", "webhook.trigger"}

TriggerLess(workflow) ==
    \A i \in DOMAIN workflow.nodes : ~DenotesTrigger(workflow.nodes[i].type)

\* the node the run is meant to start at: the named one, else the first trigger
IntendedStart(e) ==
    LET f == frames[e]
        named == f.options.triggerNodeId
        triggers == { i \in DOMAIN f.workflow.nodes :
                        DenotesTrigger(f.workflow.nodes[i].type) }
    IN  IF named # NoId
        THEN (IF named \in NodeIdsOf(f.workflow) THEN named ELSE NoId)
        ELSE IF triggers = {} THEN NoId
        ELSE f.workflow.nodes[CHOOSE i \in triggers : \A j \in triggers : i <= j].id

NoNodeFailed(e) ==
    \A n \in DOMAIN activeExecutions[e].nodes :
        activeExecutions[e].nodes[n].status # "error"

AllPending(e) ==
    \A n \in DOMAIN activeExecutions[e].nodes :
        /\ activeExecutions[e].nodes[n].status = "pending"
        /\ ~activeExecutions[e].nodes[n].executed

\* executeWorkflow never gets past resolving its start node, so executeNode,
\* and with it every handler, is never entered.
ExecuteNodeUnreachable == \A e \in ExecIds : frames[e].pc # "executeNode"

\* C1: when the run of an execution that has a start node is over and no
\* node has failed, the execution's status is completed, in the context
\* getExecutionStatus returns and in the row persisted for it.
C1_CompletedWhenNothingFailed ==
    \A e \in Started :
        (Done(e) /\ IntendedStart(e) # NoId /\ NoNodeFailed(e))
        => /\ getExecutionStatus(e)[1].status = "completed"
           /\ frames[e].row # 0 => dbExecutions[frames[e].row].status = "completed"

\* C2: for a workflow without a trigger node, called without a trigger node
\* id, execute creates the execution and returns its id, every node stays
\* pending and unexecuted, and the execution ends with status error and the
\* error "No trigger node found".
C2_NoTriggerEndsInError ==
    \A e \in ExecIds :
        (TriggerLess(frames[e].workflow) /\ frames[e].options.triggerNodeId = NoId)
        => /\ frames[e].pc \in {"idle", "insert", "catch", "done"}
           /\ frames[e].pc \in {"catch", "done"} =>
                 /\ returned[e] = 1
                 /\ getExecutionStatus(e) # Undefined
                 /\ AllPending(e)
           /\ Done(e) =>
                 /\ getExecutionStatus(e)[1].status = "error"
                 /\ getExecutionStatus(e)[1].error = NoTriggerError

C2_Witness ==
    \E e \in Started :
        /\ Done(e)
        /\ frames[e].workflow.id = 4
        /\ frames[e].options.triggerNodeId = NoId
        /\ activeExecutions[e].status = "error"

\* C3: the status of an execution changes only from running to completed,
\* error or cancelled, and once it is not running no node of the execution
\* changes (none goes to running, none is executed).
C3_StatusOnlyLeavesRunning ==
    [][\A e \in Started :
          /\ activeExecutions'[e].status # activeExecutions[e].status
             => /\ activeExecutions[e].status = "running"
                /\ activeExecutions'[e].status \in {"completed", "error", "cancelled"}
          /\ activeExecutions[e].status # "running"
             => /\ activeExecutions'[e].status = activeExecutions[e].status
                /\ activeExecutions'[e].nodes = activeExecutions[e].nodes]_vars

C3_Witness ==
    \E e \in Started :
        /\ activeExecutions[e].status = "error"
        /\ activeExecutions[e].webhook
        /\ AllPending(e)

\* C5: an execution of the cyclic workflow A -> B -> A ends with no node
\* running and with A executed (once: it is completed and flagged executed).
C5_CycleRunsAOnce ==
    \A e \in Started :
        (Done(e) /\ frames[e].workflow.id = 3)
        => /\ \A n \in DOMAIN activeExecutions[e].nodes :
                 activeExecutions[e].nodes[n].status # "running"
           /\ activeExecutions[e].nodes["A"].executed
           /\ activeExecutions[e].nodes["A"].status = "completed"

\* C7: when the start node's type has no registered handler, the node ends
\* with status error, a finish timestamp and the error detail, the execution
\* ends with status error carrying that error, and every other node stays
\* pending.
C7_UnregisteredTypeFailsNode ==
    \A e \in Started :
        LET s == IntendedStart(e)
            nodes == activeExecutions[e].nodes
        IN  (Done(e) /\ s # NoId /\ nodes[s].type \notin RegisteredTypes)
            => /\ nodes[s].status = "error"
               /\ nodes[s].finishedAt # 0
               /\ nodes[s].error # NoError
               /\ activeExecutions[e].status = "error"
               /\ activeExecutions[e].error = nodes[s].error
               /\ \A n \in DOMAIN nodes \ {s} : nodes[n].status = "pending"

\* C9: two calls of execute never get the same id, and what an execution
\* ends with (status, error, per-node records, data) is what the same call
\* ends with when it runs alone, whatever the other executions did meanwhile.
SoloRun(e) ==
    LET f == frames[e]
        execution == newContext(e, f.workflow, f.options)
        run == executeWorkflow(execution, f.options.triggerNodeId)
    IN  IF run.throws # NoError
        THEN [execution EXCEPT !.status = "error", !.error = run.throws]
        ELSE execution

C9_ExecutionsIsolated ==
    /\ \A e \in ExecIds : returned[e] <= 1
    /\ Cardinality(Started) = Cardinality({ e \in ExecIds : returned[e] > 0 })
    /\ \A e \in Started :
          Done(e) => [activeExecutions[e] EXCEPT !.webhook = FALSE] = SoloRun(e)

C9_Witness ==
    \E e1, e2 \in Started :
        /\ e1 # e2
        /\ Done(e1) /\ Done(e2)
        /\ frames[e1].workflow = frames[e2].workflow
        /\ frames[e1].options = frames[e2].options
        /\ frames[e1].options.triggerData # <<>>
        /\ activeExecutions[e1].id # activeExecutions[e2].id

\* C10: in the linear workflow A -> B -> C the nodes are started in the
\* order A, B, C, and in A -> B, A -> C, B -> D in the order A, B, D, C.
C10_DepthFirstOrder ==
    \A e \in Started :
        LET at(n) == activeExecutions[e].nodes[n].startedAt
        IN  (Done(e) /\ frames[e].options.triggerNodeId = NoId)
            => /\ frames[e].workflow.id = 1
                  => (0 < at("A") /\ at("A") < at("B") /\ at("B") < at("C"))
               /\ frames[e].workflow.id = 2
                  => (0 < at("A") /\ at("A") < at("B") /\ at("B") < at("D")
                      /\ at("D") < at("C"))

\* C11: after a run of the linear workflow A -> B -> C from its trigger, C's
\* accumulated input has exactly the keys of A's output and of B's output,
\* with B's value for the keys of both and A's value for the others.
C11_LinearInputIsMergeOfOutputs ==
    \A e \in Started :
        (Done(e) /\ frames[e].workflow.id = 1 /\ frames[e].options.triggerNodeId = NoId)
        => LET a == WebhookTriggerHandler([path |-> "lead", method |-> ""],
                                          EmptyObject).output
               b == LeadCreateHandler([leadData |-> EmptyObject], a, "resolves").output
               c == activeExecutions[e].nodes["C"].inputData
           IN  /\ DOMAIN c = DOMAIN a \cup DOMAIN b
               /\ \A k \in DOMAIN b : c[k] = b[k]
               /\ \A k \in DOMAIN a \ DOMAIN b : c[k] = a[k]

\* C12: after a run of the diamond A -> B, A -> C, B -> D, C -> D from its
\* trigger, D's accumulated input has the keys of B's output and of C's
\* output, with C's value for the keys of both.
C12_DiamondInputHasBothBranches ==
    \A e \in Started :
        (Done(e) /\ frames[e].workflow.id = 6 /\ frames[e].options.triggerNodeId = NoId)
        => \E ob, oc \in Outcomes :
              LET a == WebhookTriggerHandler([path |-> "lead", method |-> ""],
                                             EmptyObject).output
                  b == HttpRequestHandler([url |-> "https://crm.example/leads"],
                                          a, ob).output
                  c == LeadScoreHandler(a, oc).output
                  d == activeExecutions[e].nodes["D"].inputData
              IN  /\ DOMAIN b \cup DOMAIN c \subseteq DOMAIN d
                  /\ \A k \in DOMAIN c : d[k] = c[k]

\* C15: execute returns the id whether or not the insert of the execution's
\* row succeeded, and two executions of the same call, one whose row could
\* not be created and one whose row was created, end with the same node
\* records (statuses, start times) and the same execution status and error.
C15_PersistenceFailureChangesNothing ==
    /\ \A e \in ExecIds :
          frames[e].pc \in {"catch", "executeNode", "done"}
          => (returned[e] = 1 /\ e \in Started)
    /\ \A e1, e2 \in Started :
          ( /\ Done(e1) /\ Done(e2)
            /\ frames[e1].workflow = frames[e2].workflow
            /\ frames[e1].options = frames[e2].options
            /\ frames[e1].row = 0 /\ frames[e2].row # 0 )
          => /\ activeExecutions[e1].nodes = activeExecutions[e2].nodes
             /\ activeExecutions[e1].status = activeExecutions[e2].status
             /\ activeExecutions[e1].error = activeExecutions[e2].error
             /\ activeExecutions[e1].currentNodeId = activeExecutions[e2].currentNodeId

C15_Witness ==
    \E e1, e2 \in Started :
        /\ Done(e1) /\ Done(e2)
        /\ frames[e1].workflow.id = 1 /\ frames[e2].workflow.id = 1
        /\ frames[e1].options = frames[e2].options
        /\ frames[e1].row = 0 /\ frames[e2].row # 0
        /\ returned[e1] = 1
        /\ dbExecutions # <<>>

\* C16: getExecutionStatus returns the context of an execution, the one with
\* that id, from the moment execute has returned its id and at every later
\* point, and returns undefined for an id execute has not returned.
C16_StatusKnownOnceReturned ==
    \A e \in ExecIds :
        /\ returned[e] > 0
           => /\ getExecutionStatus(e) # Undefined
              /\ getExecutionStatus(e)[1].id = e
              /\ getExecutionStatus(e)[1].workflowId = frames[e].options.workflowId
        /\ returned[e] = 0 => getExecutionStatus(e) = Undefined

C16_Witness ==
    \E e1, e2 \in ExecIds :
        /\ returned[e1] = 1
        /\ Done(e1)
        /\ getExecutionStatus(e1)[1].status = "error"
        /\ getExecutionStatus(e1)[1].webhook
        /\ frames[e2].pc = "insert"
        /\ getExecutionStatus(e2) = Undefined

\* An HTTP request that fails is answered by the handler with an output that
\* carries the error and the input; nothing is thrown.
HttpFailureIsData ==
    (handled.type = "http.request" /\ handled.external = "rejects")
    => /\ handled.throws = NoError
       /\ ~handled.output.success
       /\ handled.output.error = ExternalError
       /\ handled.output.data = << handled.inputData >>

\* C17: after a run from the trigger of a workflow with an HTTP Request node
\* B that leads to D, whatever became of the HTTP call, B has ended completed
\* and D has been executed.
C17_HttpNodeCompletesAndContinues ==
    \A e \in Started :
        ( /\ Done(e)
          /\ frames[e].workflow.id \in {2, 6}
          /\ frames[e].options.triggerNodeId = NoId )
        => /\ activeExecutions[e].nodes["B"].type = "http.request"
           /\ activeExecutions[e].nodes["B"].status = "completed"
           /\ activeExecutions[e].nodes["D"].executed

\* C18: of the handlers that await an external call, the HTTP Request
\* handler is the only one that returns an output when the call fails; the
\* Lead Create and Lead Score handlers throw.
C18_OnlyHttpTurnsFailureIntoData ==
    handled.external = "rejects"
    => (handled.throws = NoError <=> handled.type = "http.request")

\* the conditions hold under the combinator: all of them, or with OR one
ConditionsHold(parameters, inputData) ==
    IF parameters.combinator = "OR"
    THEN \E i \in DOMAIN parameters.conditions :
            evaluateCondition(parameters.conditions[i], inputData)
    ELSE \A i \in DOMAIN parameters.conditions :
            evaluateCondition(parameters.conditions[i], inputData)

\* C19: for a non-empty list of conditions the Filter handler returns the
\* unchanged input as its data when the conditions hold under the
\* combinator, and null when they do not.
C19_FilterPassesOrBlocks ==
    (handled.type = "filter" /\ handled.parameters.conditions # <<>>)
    => /\ handled.throws = NoError
       /\ handled.output.data =
             IF ConditionsHold(handled.parameters, handled.inputData)
             THEN << handled.inputData >> ELSE <<>>

\* String.prototype.toUpperCase over the method names the model uses
toUpperCase(method) ==
    CASE method = "post" -> "POST"
      [] method = "get" -> "GET"
      [] OTHER -> method

\* the workflow is one the request is meant for: active, with a webhook
\* trigger whose path is the request's and whose method (POST when none is
\* configured) is the request's up to letter case
MeantFor(workflow, path) ==
    /\ workflow.active
    /\ \E j \in DOMAIN workflow.nodes :
          LET node == workflow.nodes[j]
          IN  /\ node.type = "webhook.trigger"
              /\ node.parameters.path = path
              /\ toUpperCase(IF node.parameters.method = "" THEN "POST"
                             ELSE node.parameters.method)
                 = toUpperCase(RequestMethod)

\* how often execute was called with the workflow
Invocations(workflow) ==
    Cardinality({ e \in ExecIds :
                    frames[e].pc # "idle" /\ frames[e].workflow = workflow })

\* What the route does: execute is called once with every workflow its
\* filter keeps (method absent or exactly the request's) and with no other.
WebhookRunsOncePerMatch ==
    (route.pc = "responded" /\ route.status # 500)
    => \A k \in DOMAIN route.table :
          Invocations(route.table[k])
          = IF matches(route.table[k], route.path) THEN 1 ELSE 0

\* C20: when the webhook route has answered a request, execute has been
\* called exactly once with every workflow the request is meant for and not
\* at all with any other workflow.
C20_WebhookRunsExactlyTheMatching ==
    (route.pc = "responded" /\ route.status # 500)
    => \A k \in DOMAIN route.table :
          Invocations(route.table[k])
          = IF MeantFor(route.table[k], route.path) THEN 1 ELSE 0

\* C21: after a run of a workflow whose trigger A has a connection to an id
\* that is no node and a connection to the node B, no node and not the
\* execution has ended in error, and B has been executed.
C21_DanglingTargetSkipped ==
    \A e \in Started :
        (Done(e) /\ frames[e].workflow = DanglingWorkflow)
        => /\ NoNodeFailed(e)
           /\ activeExecutions[e].status # "error"
           /\ activeExecutions[e].nodes["B"].executed

\* C22: after a run that was given a trigger payload, the start node has
\* been executed and its input data is that payload.
C22_TriggerPayloadIsStartInput ==
    \A e \in Started :
        LET s == IntendedStart(e)
        IN  (Done(e) /\ s # NoId /\ frames[e].options.triggerData # <<>>)
            => /\ activeExecutions[e].nodes[s].executed
               /\ activeExecutions[e].nodes[s].inputData = activeExecutions[e].data

\* C25: after a run, the node named by the trigger node id, or without one
\* the first node in declaration order whose type denotes a trigger, has
\* gone to running, and no other node went to running before it.
C25_StartNodeRunsFirst ==
    \A e \in Started :
        LET s == IntendedStart(e)
            nodes == activeExecutions[e].nodes
        IN  (Done(e) /\ s # NoId)
            => /\ nodes[s].status # "pending"
               /\ nodes[s].startedAt # 0
               /\ \A n \in DOMAIN nodes \ {s} :
                     nodes[n].startedAt = 0 \/ nodes[s].startedAt < nodes[n].startedAt

\* C28: once an execution has ended, the row that was inserted for it at its
\* start no longer has status running.
C28_RowUpdatedAtEnd ==
    \A e \in Started :
        (Done(e) /\ frames[e].row # 0)
        => dbExecutions[frames[e].row].status # "running"

====
